---- MODULE Spec2Model ----
(***************************************************************************)
(* Model of bot/exts/halloween/hacktoberstats.py (HacktoberStats cog).     *)
(*                                                                         *)
(* Three specifications share one set of variables:                        *)
(*   Spec         one run of get_stats -> get_october_prs -> build_embed,  *)
(*                with the GitHub search and topics responses as inputs;   *)
(*   SpecSummary  _summarize_prs and the shirt classifier of build_embed   *)
(*                applied to every bounded list of pull requests;          *)
(*   SpecLinks    the link / unlink / hacktoberstats commands of several   *)
(*                users, interleaved at their await points.                *)
(***************************************************************************)
EXTENDS Integers, Sequences, FiniteSets, Bags, TLC

VARIABLES
    \* ---- get_stats / get_october_prs ----
    pc,             \* position of the get_stats coroutine
    jsonresp,       \* the parsed search response
    idx,            \* index into jsonresp["items"] of the for loop (1-based)
    outlist,        \* outlist of get_october_prs
    jsonresp2,      \* the parsed topics response of the last lookup
    nlookups,       \* number of topics requests issued (call count)
    lookup_log,     \* per item handled: the topics response received, or NoResponse
    errlog,         \* messages passed to logging.error / log.error
    result,         \* the value get_october_prs returned
    exc,            \* the exception that left the coroutine, or "none"
    sent,           \* what get_stats passed to ctx.send
    \* ---- _summarize_prs / build_embed as functions ----
    prs,            \* the input list of pull requests
    embed,          \* what build_embed made of prs
    \* ---- link store ----
    linked_accounts,\* self.linked_accounts
    link_file,      \* the file self.link_json
    tasks,          \* the link / unlink commands in progress
    stats_out,      \* outcome of the last hacktoberstats command without a username
    last_event      \* per user: the last completed link or started unlink

pipeVars == <<pc, jsonresp, idx, outlist, jsonresp2, nlookups, lookup_log, errlog, result, exc, sent>>
sumVars  == <<prs, embed>>
linkVars == <<linked_accounts, link_file, tasks, stats_out, last_event>>
vars     == <<pipeVars, sumVars, linkVars>>

(***************************************************************************)
(* Bounds of the model.                                                    *)
(***************************************************************************)
MaxItems == 3       \* items in one search response
MaxPrs   == 6       \* length of the list given to _summarize_prs
MaxTasks == 2       \* link / unlink commands in progress at once

Repos == {"a/x", "b/y"}
AllRepos == {"a/x", "b/y", "c/z", "d/u", "e/v", "f/w"}

(***************************************************************************)
(* Module constants of hacktoberstats.py.                                  *)
(***************************************************************************)
CURRENT_YEAR == 2020
PRS_FOR_SHIRT == 4
GITHUB_NONEXISTENT_USER_MESSAGE == "The listed users cannot be searched"

(***************************************************************************)
(* Python values.  A dict read from JSON is a record with a field "keys"   *)
(* holding the keys that are present; a return value is tagged with its    *)
(* Python type.                                                            *)
(***************************************************************************)
PyFalse == [kind |-> "False", val |-> <<>>]
PyNone  == [kind |-> "None",  val |-> <<>>]
PyList(s) == [kind |-> "list", val |-> s]

\* bool(x) for the values get_october_prs returns
Truthy(v) == v.kind = "list" /\ Len(v.val) > 0

(***************************************************************************)
(* A datetime is <<year, month, day, hour, minute, second>>;               *)
(* datetime.__lt__ is the lexicographic order.                             *)
(***************************************************************************)
RECURSIVE DtLessFrom(_, _, _)
DtLessFrom(a, b, i) ==
    IF i > Len(a) THEN FALSE
    ELSE IF a[i] < b[i] THEN TRUE
    ELSE IF a[i] > b[i] THEN FALSE
    ELSE DtLessFrom(a, b, i + 1)

DtLess(a, b) == DtLessFrom(a, b, 1)

\* datetime(int(CURRENT_YEAR), 10, 3, 0, 0, 0)
oct3 == <<CURRENT_YEAR, 10, 3, 0, 0, 0>>

\* datetime.strptime(item["created_at"], "%Y-%m-%dT%H:%M:%SZ"): the text
\* "date T time Z" is a record of its date and its time fields
strptime(text) == text.date \o text.time

\* _get_shortname: the part of the URL after https://api.github.com/repos/
_get_shortname(in_url) == in_url[2]

\* the test of the grace period, line 297: created_at < oct3
\* (NotAfterOct3 is the faulty variant created_at <= oct3)
NotAfterOct3(created_at) == ~ DtLess(oct3, created_at)
BeforeOct3(created_at) == DtLess(created_at, oct3)

(***************************************************************************)
(* The responses GitHub can send.                                          *)
(***************************************************************************)
CreatedAtTexts ==
    { [date |-> <<CURRENT_YEAR, 9, 30>>, time |-> <<12, 0, 0>>],    \* before the cutoff, day > 3
      [date |-> <<CURRENT_YEAR, 10, 2>>, time |-> <<23, 59, 59>>],  \* last second of the grace period
      [date |-> <<CURRENT_YEAR, 10, 3>>, time |-> <<0, 0, 0>>],     \* the cutoff itself
      [date |-> <<CURRENT_YEAR, 11, 1>>, time |-> <<0, 0, 0>>] }    \* after the cutoff, day < 3

SearchItems ==
    [repository_url : {<<"https://api.github.com/repos/", r>> : r \in Repos},
     created_at : CreatedAtTexts]

RECURSIVE SeqsUpTo(_, _)
SeqsUpTo(S, n) ==
    IF n = 0 THEN {<<>>}
    ELSE LET shorter == SeqsUpTo(S, n - 1)
         IN  shorter \cup {Append(s, x) : s \in {t \in shorter : Len(t) = n - 1}, x \in S}

NoLabels == {}

\* a search that worked: total_count and items (GitHub sends no top-level
\* "labels", the key line 311 reads)
SearchSuccess ==
    { [keys |-> {"total_count", "incomplete_results", "items"}, total_count |-> Len(its),
       items |-> its, labels |-> NoLabels, message |-> "", errors |-> <<>>] :
         its \in SeqsUpTo(SearchItems, MaxItems) }

\* a search that failed: "message", with an "errors" list (validation
\* failures) or without one (rate limit, bad credentials)
SearchFailure ==
    { [keys |-> {"message", "errors", "documentation_url"}, total_count |-> 0, items |-> <<>>,
       labels |-> NoLabels, message |-> "Validation Failed", errors |-> <<[message |-> m]>>] :
         m \in {GITHUB_NONEXISTENT_USER_MESSAGE, "other"} }
    \cup
    { [keys |-> {"message", "documentation_url"}, total_count |-> 0, items |-> <<>>,
       labels |-> NoLabels, message |-> "API rate limit exceeded", errors |-> <<>>] }

SearchResponses == SearchSuccess \cup SearchFailure

TopicsResponses ==
    { [keys |-> {"names"}, names |-> ns, message |-> ""] :
         ns \in {{}, {"python"}, {"hacktoberfest", "python"}} }
    \cup
    { [keys |-> {"message", "documentation_url"}, names |-> {}, message |-> "Not Found"] }

NoResponse == [keys |-> {}, names |-> {}, message |-> ""]
NoSearchResponse ==
    [keys |-> {}, total_count |-> 0, items |-> <<>>, labels |-> NoLabels,
     message |-> "", errors |-> <<>>]

(***************************************************************************)
(* _summarize_prs and build_embed.                                         *)
(***************************************************************************)
\* the keys of Counter(xs) in insertion (first seen) order
RECURSIVE CounterKeys(_)
CounterKeys(xs) ==
    IF xs = <<>> THEN <<>>
    ELSE LET front == CounterKeys(SubSeq(xs, 1, Len(xs) - 1))
             x     == xs[Len(xs)]
         IN  IF \E i \in 1..Len(front) : front[i] = x THEN front ELSE Append(front, x)

\* Counter(xs)[x]
CounterCount(xs, x) == Cardinality({i \in 1..Len(xs) : xs[i] = x})

\* Counter(xs).items(): (key, count) pairs in insertion order
CounterItems(xs) ==
    LET ks == CounterKeys(xs)
    IN  [i \in 1..Len(ks) |-> <<ks[i], CounterCount(xs, ks[i])>>]

\* where a pair goes in a list sorted by count, descending: behind every
\* pair whose count is at least as large (the sort is stable)
\* (InsertPosUnstable is the faulty variant that puts it before its equals)
InsertPosUnstable(sorted, pair) ==
    Cardinality({i \in 1..Len(sorted) : sorted[i][2] > pair[2]})
InsertPos(sorted, pair) ==
    Cardinality({i \in 1..Len(sorted) : sorted[i][2] >= pair[2]})

RECURSIVE SortByCountDesc(_)
SortByCountDesc(pairs) ==
    IF pairs = <<>> THEN <<>>
    ELSE LET front == SortByCountDesc(SubSeq(pairs, 1, Len(pairs) - 1))
             p     == pairs[Len(pairs)]
             k     == InsertPos(front, p)
         IN  SubSeq(front, 1, k) \o <<p>> \o SubSeq(front, k + 1, Len(front))

\* Counter.most_common(n) = heapq.nlargest(n, items, key = count)
\*                        = sorted(items, key = count, reverse = True)[:n]
most_common(xs, n) ==
    LET all == SortByCountDesc(CounterItems(xs))
    IN  SubSeq(all, 1, IF Len(all) < n THEN Len(all) ELSE n)

_summarize_prs(prlist) ==
    LET contributed_repos == [i \in 1..Len(prlist) |-> prlist[i].repo_shortname]
    IN  [n_prs |-> Len(prlist), top5 |-> most_common(contributed_repos, 5)]

\* the choice of shirtstr in build_embed, lines 187-193
\* (ShirtStrOffByOne is the faulty variant with n > PRS_FOR_SHIRT)
ShirtStrOffByOne(n) ==
    IF n > PRS_FOR_SHIRT THEN [kind |-> "earned", away |-> 0]
    ELSE IF n = PRS_FOR_SHIRT - 1 THEN [kind |-> "one away", away |-> 1]
    ELSE [kind |-> "N away", away |-> PRS_FOR_SHIRT - n]
ShirtStr(n) ==
    IF n >= PRS_FOR_SHIRT THEN [kind |-> "earned", away |-> 0]
    ELSE IF n = PRS_FOR_SHIRT - 1 THEN [kind |-> "one away", away |-> 1]
    ELSE [kind |-> "N away", away |-> PRS_FOR_SHIRT - n]

build_embed(prlist) ==
    LET pr_stats == _summarize_prs(prlist)
        n        == pr_stats.n_prs
    IN  [n |-> n, shirtstr |-> ShirtStr(n), top5 |-> pr_stats.top5]

NoEmbed == [n |-> 0, shirtstr |-> [kind |-> "", away |-> 0], top5 |-> <<>>]

(***************************************************************************)
(* get_stats and get_october_prs.  The coroutine is cut at its awaits: the *)
(* search request, each topics request, and ctx.send.                      *)
(*   pc = "search"    waiting for the search response (line 261)           *)
(*   pc = "loop"      at the head of the for loop (line 286)               *)
(*   pc = "topics"    waiting for a topics response (line 304)             *)
(*   pc = "returned"  get_october_prs has returned to get_stats            *)
(*   pc = "raised"    an exception left get_october_prs and get_stats      *)
(*   pc = "sent"      get_stats has sent its message                       *)
(***************************************************************************)
NoSent == [kind |-> "none", embed |-> NoEmbed]

InitPipe ==
    /\ pc = "search"
    /\ jsonresp = NoSearchResponse
    /\ idx = 0
    /\ outlist = <<>>
    /\ jsonresp2 = NoResponse
    /\ nlookups = 0
    /\ lookup_log = <<>>
    /\ errlog = <<>>
    /\ result = PyNone
    /\ exc = "none"
    /\ sent = NoSent

\* lines 287-294
ItemDict(item) ==
    LET shortname == _get_shortname(item.repository_url)
    IN  [repo_url |-> <<"https://www.github.com/", shortname>>,
         repo_shortname |-> shortname,
         created_at |-> strptime(item.created_at)]

CurrentItem == ItemDict(jsonresp.items[idx])

\* lines 261-284: the search response arrives
RecvSearch ==
    /\ pc = "search"
    /\ \E r \in SearchResponses :
        /\ jsonresp' = r
        /\ IF "message" \in r.keys
           THEN /\ IF "errors" \notin r.keys
                   THEN \* jsonresp["errors"] raises KeyError
                        /\ pc' = "raised" /\ exc' = "KeyError" /\ result' = result
                        /\ errlog' = errlog
                   ELSE IF Len(r.errors) = 0
                   THEN \* jsonresp["errors"][0] raises IndexError
                        /\ pc' = "raised" /\ exc' = "IndexError" /\ result' = result
                        /\ errlog' = errlog
                   ELSE LET api_message == r.errors[1].message
                        IN  /\ pc' = "returned" /\ exc' = exc /\ result' = PyFalse
                            /\ errlog' = IF api_message = GITHUB_NONEXISTENT_USER_MESSAGE
                                         THEN errlog
                                         ELSE Append(errlog, "GitHub API request failed")
                /\ UNCHANGED <<idx, outlist>>
           ELSE IF r.total_count = 0
           THEN \* lines 277-280: return (None)
                /\ pc' = "returned" /\ exc' = exc /\ result' = PyNone
                /\ UNCHANGED <<errlog, idx, outlist>>
           ELSE \* lines 283-286: outlist = [], the loop starts at the first item
                /\ pc' = "loop" /\ exc' = exc /\ result' = result
                /\ idx' = 1
                /\ outlist' = <<>>
                /\ errlog' = errlog
    /\ UNCHANGED <<jsonresp2, nlookups, lookup_log, sent, sumVars, linkVars>>

\* lines 286-299: an item created before October 3rd is appended as it is
LoopGrace ==
    /\ pc = "loop"
    /\ idx <= Len(jsonresp.items)
    /\ BeforeOct3(CurrentItem.created_at)
    /\ outlist' = Append(outlist, CurrentItem)
    /\ lookup_log' = Append(lookup_log, NoResponse)
    /\ idx' = idx + 1
    /\ UNCHANGED <<pc, jsonresp, jsonresp2, nlookups, errlog, result, exc, sent, sumVars, linkVars>>

\* lines 286-304: any other item has the topics of its repository requested
LoopLookup ==
    /\ pc = "loop"
    /\ idx <= Len(jsonresp.items)
    /\ ~ BeforeOct3(CurrentItem.created_at)
    /\ pc' = "topics"
    /\ nlookups' = nlookups + 1
    /\ UNCHANGED <<jsonresp, idx, outlist, jsonresp2, lookup_log, errlog, result, exc, sent, sumVars, linkVars>>

\* the test of line 311 with the topics response r2; "raise" where a
\* subscript raises KeyError
Line311(r2) ==
    IF "names" \notin r2.keys THEN "raise"
    ELSE IF "hacktoberfest" \in r2.names THEN "append"
    ELSE IF "labels" \notin jsonresp.keys THEN "raise"
    ELSE IF "hacktoberfest-accpeted" \in jsonresp.labels THEN "append"
    ELSE "skip"

\* lines 304-312: the topics response arrives
RecvTopics ==
    /\ pc = "topics"
    /\ \E r2 \in TopicsResponses :
        /\ jsonresp2' = r2
        /\ lookup_log' = Append(lookup_log, r2)
        /\ IF "names" \notin r2.keys /\ "message" \notin r2.keys
           THEN \* jsonresp2["message"] raises KeyError inside log.error(...)
                /\ pc' = "raised" /\ exc' = "KeyError"
                /\ UNCHANGED <<errlog, outlist, idx>>
           ELSE /\ errlog' = IF "names" \notin r2.keys
                             THEN Append(errlog, "Error fetching topics")
                             ELSE errlog
                /\ LET test == Line311(r2)
                   IN  IF test = "raise"
                       THEN /\ pc' = "raised" /\ exc' = "KeyError"
                            /\ UNCHANGED <<outlist, idx>>
                       ELSE /\ pc' = "loop" /\ exc' = exc
                            /\ outlist' = IF test = "append"
                                          THEN Append(outlist, CurrentItem)
                                          ELSE outlist
                            /\ idx' = idx + 1
    /\ UNCHANGED <<jsonresp, nlookups, result, sent, sumVars, linkVars>>

\* line 313: return outlist
LoopEnd ==
    /\ pc = "loop"
    /\ idx > Len(jsonresp.items)
    /\ result' = PyList(outlist)
    /\ pc' = "returned"
    /\ UNCHANGED <<jsonresp, idx, outlist, jsonresp2, nlookups, lookup_log, errlog, exc, sent, sumVars, linkVars>>

\* the message of get_stats, lines 176-180
GetStatsMessage(prlist) ==
    IF Truthy(prlist)
    THEN [kind |-> "Here are some stats!", embed |-> build_embed(prlist.val)]
    ELSE [kind |-> "No valid October GitHub contributions found", embed |-> NoEmbed]

GetStatsSend ==
    /\ pc = "returned"
    /\ sent' = GetStatsMessage(result)
    /\ pc' = "sent"
    /\ UNCHANGED <<jsonresp, idx, outlist, jsonresp2, nlookups, lookup_log, errlog, result, exc, sumVars, linkVars>>

InitSumIdle == prs = <<>> /\ embed = NoEmbed

\* ---- dicts: functions from the keys present to their values ----
EmptyDict == [k \in {} |-> ""]
DictSet(d, k, v) == [x \in DOMAIN d \cup {k} |-> IF x = k THEN v ELSE d[x]]
\* dict.pop(k, None) (DictPopKeepsEntry is the faulty variant that removes nothing)
DictPopKeepsEntry(d, k) == d
DictPop(d, k) == [x \in DOMAIN d \ {k} |-> d[x]]

NoFile == [exists |-> FALSE, data |-> EmptyDict]
NoStats == [author_id |-> "", kind |-> "none", github_username |-> ""]

InitLinksIdle ==
    /\ linked_accounts = EmptyDict
    /\ link_file = NoFile
    /\ tasks = EmptyBag
    /\ stats_out = NoStats
    /\ last_event = EmptyDict

Init == InitPipe /\ InitSumIdle /\ InitLinksIdle

Next ==
    \/ RecvSearch
    \/ LoopGrace
    \/ LoopLookup
    \/ RecvTopics
    \/ LoopEnd
    \/ GetStatsSend

Spec == Init /\ [][Next]_vars

(***************************************************************************)
(* Properties of the pipeline, stated on the raw responses.                *)
(***************************************************************************)
\* the candidates of the search response, and those handled so far
NItems == Len(jsonresp.items)
Handled == Len(lookup_log)

\* candidate i was created at or after October 3rd 00:00:00, read off the
\* date of its created_at text
AtOrAfterCutoff(i) ==
    LET d == jsonresp.items[i].created_at.date
    IN  d[2] > 10 \/ (d[2] = 10 /\ d[3] >= 3)

\* the topics response for candidate i was an error / carried the tag
TopicError(i) == lookup_log[i] # NoResponse /\ "names" \notin lookup_log[i].keys
TopicOk(i) == "names" \in lookup_log[i].keys
Tagged(i) == TopicOk(i) /\ "hacktoberfest" \in lookup_log[i].names

\* the qualification rules: rule A (grace period) or rule B (tag)
IsGrace(i) == ~ AtOrAfterCutoff(i)
Qualifies(i) == IsGrace(i) \/ Tagged(i)

\* candidate i as an entry of the output list
Candidate(i) ==
    [repo_url |-> <<"https://www.github.com/", jsonresp.items[i].repository_url[2]>>,
     repo_shortname |-> jsonresp.items[i].repository_url[2],
     created_at |-> jsonresp.items[i].created_at.date \o jsonresp.items[i].created_at.time]

\* the candidates among 1..k whose index is in S, in the order of the search
RECURSIVE Kept(_, _)
Kept(S, k) ==
    IF k = 0 THEN <<>>
    ELSE IF k \in S THEN Append(Kept(S, k - 1), Candidate(k))
    ELSE Kept(S, k - 1)

Qualifying == {i \in 1..Handled : Qualifies(i)}
Grace == {i \in 1..NItems : IsGrace(i)}

Finished == pc \in {"returned", "sent", "raised"}

\* C1: a candidate at or after the cutoff whose topics lookup returned an
\* error response is rejected, the error is logged, and the run does not end
\* in an exception: the remaining candidates are handled and a list returned.
C1_TopicErrorIsNotFatal ==
    \A i \in 1..Handled :
        (AtOrAfterCutoff(i) /\ TopicError(i)) =>
            /\ pc # "raised"
            /\ errlog # <<>>
            /\ outlist = Kept(Qualifying, Handled)
            /\ (Finished => (result.kind = "list" /\ Handled = NItems))

\* C2: a candidate at or after the cutoff whose topics lookup succeeded is
\* admitted iff the topics contain "hacktoberfest"; without the tag it is left
\* out and the loop goes on with the next candidate.
C2_AdmittedIffTagged ==
    \A i \in 1..Handled :
        (AtOrAfterCutoff(i) /\ TopicOk(i)) =>
            /\ pc # "raised"
            /\ i = Handled =>
                 outlist = IF Tagged(i)
                           THEN Append(Kept(Qualifying, i - 1), Candidate(i))
                           ELSE Kept(Qualifying, i - 1)

\* an entry of the output list was created before the cutoff
IsGraceEntry(e) == e.created_at[2] < 10 \/ (e.created_at[2] = 10 /\ e.created_at[3] < 3)

\* C3: a candidate created strictly before the cutoff is admitted without a
\* topics lookup; every other candidate, one created exactly at the cutoff
\* included, has a lookup issued; the number of lookups issued is the number
\* of candidates at or after the cutoff reached so far, never more than the
\* number of such candidates in the response.
C3_GraceAdmittedWithoutLookup ==
    /\ \A i \in 1..Handled : AtOrAfterCutoff(i) <=> lookup_log[i] # NoResponse
    /\ SelectSeq(outlist, IsGraceEntry) = Kept(Grace, Handled)
    /\ pc = "topics" => AtOrAfterCutoff(idx)
    /\ nlookups = Cardinality({i \in 1..Handled : AtOrAfterCutoff(i)})
                    + (IF pc = "topics" THEN 1 ELSE 0)
    /\ nlookups <= Cardinality({i \in 1..NItems : AtOrAfterCutoff(i)})
    /\ (pc \in {"returned", "sent"} /\ result.kind = "list") =>
           /\ Handled = NItems
           /\ SelectSeq(result.val, IsGraceEntry) = Kept(Grace, NItems)

\* a run that returned a list holding a candidate of the grace period and one
\* created exactly at the cutoff, with one lookup issued
C3_Witness ==
    /\ pc = "sent"
    /\ result.kind = "list"
    /\ nlookups = 1
    /\ \E i, j \in 1..NItems :
          /\ jsonresp.items[i].created_at = [date |-> <<CURRENT_YEAR, 10, 2>>, time |-> <<23, 59, 59>>]
          /\ jsonresp.items[j].created_at = [date |-> <<CURRENT_YEAR, 10, 3>>, time |-> <<0, 0, 0>>]
          /\ lookup_log[i] = NoResponse
          /\ lookup_log[j] # NoResponse

\* the search reported that the user does not exist or is not visible
UserNotFound ==
    /\ "message" \in jsonresp.keys
    /\ "errors" \in jsonresp.keys
    /\ Len(jsonresp.errors) > 0
    /\ jsonresp.errors[1].message = GITHUB_NONEXISTENT_USER_MESSAGE

\* the search worked and no pull request qualifies
ZeroQualify ==
    /\ "message" \notin jsonresp.keys
    /\ \A i \in 1..NItems : i <= Handled /\ ~ Qualifies(i)

\* C4: user-not-found and zero-qualifying end in different outcomes: the
\* returned values differ and the message get_stats sends differs.
C4_NotFoundDistinctFromZero ==
    pc = "sent" =>
        /\ ZeroQualify =>
             /\ result \in {PyNone, PyList(<<>>)}
             /\ sent.kind = "No valid October GitHub contributions found"
        /\ UserNotFound =>
             /\ result \notin {PyNone, PyList(<<>>)}
             /\ sent.kind # "No valid October GitHub contributions found"

\* C5: a search response with a "message" ends in a failure value returned to
\* the caller, and no run ends in an unhandled exception.
C5_NoUnhandledException ==
    /\ pc # "raised"
    /\ (pc # "search" /\ "message" \in jsonresp.keys) => (pc \in {"returned", "sent"} /\ result = PyFalse)

\* C6: for every candidate list of a successful search, the finished run
\* reports a list whose n_prs is the number of candidates the rules admit,
\* holding the admitted candidates in the order of the search.
C6_CountIsNumberAdmitted ==
    (Finished /\ "items" \in jsonresp.keys /\ NItems > 0) =>
        /\ result.kind = "list"
        /\ Handled = NItems
        /\ _summarize_prs(result.val).n_prs = Cardinality({i \in 1..NItems : Qualifies(i)})
        /\ result.val = Kept(Qualifying, NItems)

(***************************************************************************)
(* _summarize_prs and build_embed applied to every bounded list of pull    *)
(* requests: the list is drawn by Init, Summarize applies build_embed.     *)
(***************************************************************************)
PrDicts == [repo_shortname : AllRepos]

InitSum ==
    /\ prs \in SeqsUpTo(PrDicts, MaxPrs)
    /\ embed = NoEmbed

Summarize ==
    /\ embed = NoEmbed
    /\ embed' = build_embed(prs)
    /\ UNCHANGED <<prs, pipeVars, linkVars>>

InitPipeIdle ==
    /\ pc = "idle"
    /\ jsonresp = NoSearchResponse
    /\ idx = 0
    /\ outlist = <<>>
    /\ jsonresp2 = NoResponse
    /\ nlookups = 0
    /\ lookup_log = <<>>
    /\ errlog = <<>>
    /\ result = PyNone
    /\ exc = "none"
    /\ sent = NoSent

NextSummary == Summarize

InitSummary == InitSum /\ InitPipeIdle /\ InitLinksIdle

SpecSummary == InitSummary /\ [][NextSummary]_vars

Summarized == embed # NoEmbed

\* the repositories of prs and their numbers of occurrences
ReposOf == {prs[i].repo_shortname : i \in 1..Len(prs)}
Occurrences(r) == Cardinality({i \in 1..Len(prs) : prs[i].repo_shortname = r})
FirstSeen(r) == CHOOSE i \in 1..Len(prs) :
                    /\ prs[i].repo_shortname = r
                    /\ \A j \in 1..(i - 1) : prs[j].repo_shortname # r

RECURSIVE SumCounts(_)
SumCounts(pairs) ==
    IF pairs = <<>> THEN 0 ELSE pairs[1][2] + SumCounts(Tail(pairs))

\* C7: top5 has at most 5 entries, each the number of occurrences of its
\* repository in the input, sorted by count descending, equal counts in the
\* order of first occurrence; no repository left out has a higher count than
\* one listed; the listed counts sum to at most the total count.
C7_Top5 ==
    Summarized =>
        LET top5 == embed.top5
            listed == {top5[k][1] : k \in 1..Len(top5)}
        IN  /\ Len(top5) <= 5
            /\ Len(top5) = (IF Cardinality(ReposOf) < 5 THEN Cardinality(ReposOf) ELSE 5)
            /\ \A k \in 1..Len(top5) :
                  /\ top5[k][1] \in ReposOf
                  /\ top5[k][2] = Occurrences(top5[k][1])
            /\ \A k, l \in 1..Len(top5) : k < l =>
                  /\ top5[k][1] # top5[l][1]
                  /\ top5[k][2] >= top5[l][2]
                  /\ top5[k][2] = top5[l][2] => FirstSeen(top5[k][1]) < FirstSeen(top5[l][1])
            /\ \A r \in ReposOf \ listed : \A k \in 1..Len(top5) :
                  /\ Occurrences(r) <= top5[k][2]
                  /\ Occurrences(r) = top5[k][2] => FirstSeen(top5[k][1]) < FirstSeen(r)
            /\ SumCounts(top5) <= embed.n
            /\ embed.n = Len(prs)

\* six repositories, so that one is left out, and a tie decided by the order
\* of first occurrence against the order of the names
C7_Witness ==
    /\ Summarized
    /\ Cardinality(ReposOf) = 6
    /\ Len(embed.top5) = 5
    /\ embed.top5[1] = <<"f/w", 1>>
    /\ embed.top5[2] = <<"a/x", 1>>

\* C8: with threshold 4 the classifier yields "earned" for n >= 4, "one
\* away" for n = 3 and "N away" with N = 4 - n otherwise; exactly one applies.
C8_Classifier ==
    Summarized =>
        LET n == Len(prs)
            m == embed.shirtstr
        IN  /\ m.kind \in {"earned", "one away", "N away"}
            /\ m.kind = "earned" <=> n >= 4
            /\ m.kind = "one away" <=> n = 3
            /\ m.kind = "N away" <=> n < 3
            /\ m.kind = "N away" => m.away = 4 - n
            /\ n = 0 => (m.kind = "N away" /\ m.away = 4)

C8_Witness ==
    /\ Summarized
    /\ Len(prs) = 4
    /\ embed.shirtstr.kind = "earned"

(***************************************************************************)
(* The link store: link_user, unlink_user, hacktoberstats_group,           *)
(* load_linked_users and save_linked_users.  A command is cut at its       *)
(* await ctx.send(...); a send that raises ends the command there.         *)
(***************************************************************************)
AuthorIds == {101, 202}
Usernames == {"alice", "bob"}
NoUsername == ""        \* github_username = None (or ""): not truthy

\* str(ctx.message.author.id) of _author_mention_from_context
StrOfId(id) == CASE id = 101 -> "101" [] id = 202 -> "202"
_author_mention_from_context(id) == <<StrOfId(id), <<"@", id>>>>
AuthorKeys == {StrOfId(id) : id \in AuthorIds}

\* json.dump(self.linked_accounts, file, default=str): the datetime of
\* date_added is written as its str()
JsonDump(d) ==
    [k \in DOMAIN d |-> [github_username |-> d[k].github_username, date_added |-> "str"]]

\* save_linked_users
save_linked_users(accounts) == [exists |-> TRUE, data |-> JsonDump(accounts)]

\* load_linked_users
load_linked_users(file) == IF file.exists THEN file.data ELSE EmptyDict

\* the files an earlier run of the bot can have left
StoredEntry(name) == [github_username |-> name, date_added |-> "str"]
InitialFiles ==
    {NoFile, [exists |-> TRUE, data |-> EmptyDict]}
    \cup {[exists |-> TRUE, data |-> DictSet(EmptyDict, k, StoredEntry(n))] :
              k \in AuthorKeys, n \in Usernames}

\* the links of a dict: key -> github_username
Links(d) == [k \in DOMAIN d |-> d[k].github_username]

\* __init__, lines 38-41
InitLinks ==
    /\ link_file \in InitialFiles
    /\ linked_accounts = load_linked_users(link_file)
    /\ tasks = EmptyBag
    /\ stats_out = NoStats
    /\ last_event = [k \in AuthorKeys |->
                        IF k \in DOMAIN load_linked_users(link_file)
                        THEN load_linked_users(link_file)[k].github_username
                        ELSE "none"]

InFlight == BagCardinality(tasks)
Task(kind, key, name) == [kind |-> kind, author_id |-> key, github_username |-> name]
Start(t) == tasks (+) SetToBag({t})
Finish(t) == tasks (-) SetToBag({t})

\* link_user up to its await, lines 86-94 and 103-104
LinkStart ==
    /\ InFlight < MaxTasks
    /\ \E id \in AuthorIds, name \in Usernames \cup {NoUsername} :
          LET author_id == _author_mention_from_context(id)[1]
          IN  tasks' = Start(Task("link", author_id, name))
    /\ UNCHANGED <<linked_accounts, link_file, stats_out, last_event, pipeVars, sumVars>>

\* link_user after its await, lines 96-101
LinkSent ==
    \E t \in BagToSet(tasks) :
        /\ t.kind = "link"
        /\ tasks' = Finish(t)
        /\ IF t.github_username # NoUsername
           THEN /\ linked_accounts' =
                      DictSet(linked_accounts, t.author_id,
                              [github_username |-> t.github_username, date_added |-> "datetime"])
                /\ link_file' = save_linked_users(linked_accounts')
                /\ last_event' = [last_event EXCEPT ![t.author_id] = t.github_username]
           ELSE UNCHANGED <<linked_accounts, link_file, last_event>>
        /\ UNCHANGED <<stats_out, pipeVars, sumVars>>

\* unlink_user up to its await, lines 111-118
UnlinkStart ==
    /\ InFlight < MaxTasks
    /\ \E id \in AuthorIds :
          LET author_id == _author_mention_from_context(id)[1]
          IN  /\ linked_accounts' = DictPop(linked_accounts, author_id)
              /\ tasks' = Start(Task("unlink", author_id, NoUsername))
              /\ last_event' = [last_event EXCEPT ![author_id] = "unlink"]
    /\ UNCHANGED <<link_file, stats_out, pipeVars, sumVars>>

\* unlink_user after its await, line 121
UnlinkSent ==
    \E t \in BagToSet(tasks) :
        /\ t.kind = "unlink"
        /\ tasks' = Finish(t)
        /\ link_file' = save_linked_users(linked_accounts)
        /\ UNCHANGED <<linked_accounts, stats_out, last_event, pipeVars, sumVars>>

\* ctx.send raises (discord.HTTPException): the command ends at its await
SendFailed ==
    \E t \in BagToSet(tasks) :
        /\ tasks' = Finish(t)
        /\ UNCHANGED <<linked_accounts, link_file, stats_out, last_event, pipeVars, sumVars>>

\* hacktoberstats_group without a github_username, lines 54-69
StatsOutcome(accounts, author_id) ==
    IF author_id \in DOMAIN accounts
    THEN [author_id |-> author_id, kind |-> "get_stats",
          github_username |-> accounts[author_id].github_username]
    ELSE [author_id |-> author_id, kind |-> "not linked", github_username |-> ""]

StatsCommand ==
    /\ \E id \in AuthorIds :
          stats_out' = StatsOutcome(linked_accounts, _author_mention_from_context(id)[1])
    /\ UNCHANGED <<linked_accounts, link_file, tasks, last_event, pipeVars, sumVars>>

NextLinks ==
    \/ LinkStart
    \/ LinkSent
    \/ UnlinkStart
    \/ UnlinkSent
    \/ SendFailed
    \/ StatsCommand

InitLinkStore == InitLinks /\ InitPipeIdle /\ InitSumIdle

SpecLinks == InitLinkStore /\ [][NextLinks]_vars

(***************************************************************************)
(* Properties of the link store.                                           *)
(***************************************************************************)
Quiescent == tasks = EmptyBag

\* the links the file holds; a file that does not exist holds none
FileLinks == IF link_file.exists THEN Links(link_file.data) ELSE EmptyDict

\* what a hacktoberstats command of each author would answer now
C9_LastLinkDecides ==
    \A k \in AuthorKeys :
        LET out == StatsOutcome(linked_accounts, k)
        IN  IF last_event[k] \in Usernames
            THEN out.kind = "get_stats" /\ out.github_username = last_event[k]
            ELSE out.kind = "not linked"

\* the links change only when a link with a username completes (the author's
\* entry is overwritten) or when an unlink starts (the author's entry goes)
C9_LinksChangeOnlyBy ==
    \/ Links(linked_accounts') = Links(linked_accounts)
    \/ \E t \in BagToSet(tasks) :
          /\ t.kind = "link" /\ t.github_username # NoUsername
          /\ tasks' = Finish(t)
          /\ Links(linked_accounts') =
                DictSet(Links(linked_accounts), t.author_id, t.github_username)
    \/ \E u \in BagToSet(tasks') :
          /\ u.kind = "unlink"
          /\ tasks' = Start(u)
          /\ u.author_id \in DOMAIN linked_accounts
          /\ DOMAIN linked_accounts' = DOMAIN linked_accounts \ {u.author_id}
          /\ \A x \in DOMAIN linked_accounts' :
                Links(linked_accounts')[x] = Links(linked_accounts)[x]

\* the answer a hacktoberstats command gives
C9_StatsAnswer ==
    stats_out' # stats_out =>
        \E k \in AuthorKeys :
           /\ stats_out'.author_id = k
           /\ IF last_event[k] \in Usernames
              THEN stats_out'.kind = "get_stats" /\ stats_out'.github_username = last_event[k]
              ELSE stats_out'.kind = "not linked"

\* C9: a hacktoberstats command without a username gets the stats of the
\* username of the author's last completed link if no unlink of that author
\* came after it, and otherwise answers "not linked" without a query; a link
\* with a username overwrites the author's entry only, a link without one
\* changes nothing, an unlink removes the author's entry only.  (A link
\* counts from the moment its send has returned, an unlink from the moment
\* it is invoked: last_event records the later of the two per author.)
C9_StatsFollowLastLink ==
    /\ []C9_LastLinkDecides
    /\ [][C9_LinksChangeOnlyBy]_vars
    /\ [][C9_StatsAnswer]_vars

\* one author linked "bob" in this run and got the stats of "bob", the
\* other author unlinked and was told that no account is linked
C9_Witness ==
    /\ Quiescent
    /\ last_event["101"] = "bob"
    /\ linked_accounts["101"].date_added = "datetime"
    /\ last_event["202"] = "unlink"
    /\ stats_out = [author_id |-> "202", kind |-> "not linked", github_username |-> ""]
    /\ StatsOutcome(linked_accounts, "101").github_username = "bob"

\* C10: whenever no link or unlink command is in progress the file holds
\* exactly the links of linked_accounts, also after a send that failed.
C10_FileMatchesMemory ==
    Quiescent => FileLinks = Links(linked_accounts)

====
